---- MODULE Spec2Model ----
(***************************************************************************)
(* A model of morsel.db's Database class (src/src/database.ts, lines       *)
(* 152-475) and of its error catalog (src/unnamed/part_000).               *)
(*                                                                         *)
(* One Database instance is bound to one backing file.  A call of an async *)
(* method runs synchronously up to its first await (argument checks, the   *)
(* change of this.data, JSON.stringify of the snapshot, the start of       *)
(* fs.writeFile) and finishes in a later step, when the file system        *)
(* operation it awaits completes.  Calls that are not awaited by the       *)
(* caller overlap: several of them are then in flight at once.             *)
(***************************************************************************)
EXTENDS Integers, Sequences, FiniteSets, TLC

(***************************************************************************)
(* Bounds of the model.                                                    *)
(***************************************************************************)
\* finite numbers stored in the model lie in -MaxNum .. MaxNum
MaxNum == 2
\* arrays hold at most MaxLen elements
MaxLen == 2
\* at most MaxInFlight calls are in flight at once
MaxInFlight == 2
\* at most MaxWriteFail writes in a row fail
MaxWriteFail == 1

(***************************************************************************)
(* JavaScript values.  Every value is a record tagged with t.  A number is *)
(* finite (c = "fin", value n) or one of Infinity, -Infinity, NaN.  Hole   *)
(* is an empty slot of an array (what `delete array[i]` leaves).           *)
(***************************************************************************)
Num(i) == [t |-> "number", c |-> "fin", n |-> i]
PInf == [t |-> "number", c |-> "pinf", n |-> 0]
NInf == [t |-> "number", c |-> "ninf", n |-> 0]
NaN == [t |-> "number", c |-> "nan", n |-> 0]
Str(s) == [t |-> "string", s |-> s]
Bool(b) == [t |-> "boolean", b |-> b]
Null == [t |-> "null"]
Undefined == [t |-> "undefined"]
Hole == [t |-> "hole"]
Arr(a) == [t |-> "array", a |-> a]
Obj(o) == [t |-> "object", o |-> o]

\* the empty object literal {}
EmptyObject == <<>>

\* typeof v
TypeOf(v) ==
  CASE v.t = "number" -> "number"
    [] v.t = "string" -> "string"
    [] v.t = "boolean" -> "boolean"
    [] v.t \in {"undefined", "hole"} -> "undefined"
    [] OTHER -> "object"

\* Array.isArray(v)
IsArray(v) == v.t = "array"

\* !!v for the values an entry of data can hold
Truthy(v) ==
  CASE v.t \in {"null", "undefined", "hole"} -> FALSE
    [] v.t = "number" -> ~(v.c = "nan" \/ (v.c = "fin" /\ v.n = 0))
    [] v.t = "string" -> v.s # ""
    [] v.t = "boolean" -> v.b
    [] OTHER -> TRUE

\* a === b for two primitive values (NaN equals nothing, itself included)
StrictEq(a, b) ==
  /\ a.t = b.t
  /\ a.t \in {"number", "string", "boolean", "null", "undefined"}
  /\ a = b
  /\ ~(a.t = "number" /\ a.c = "nan")

(***************************************************************************)
(* Property access on a plain object, modelled as a function from the      *)
(* names of its own properties to their values.                            *)
(***************************************************************************)
\* o[k]: undefined when o has no property k
Get(o, k) == IF k \in DOMAIN o THEN o[k] ELSE Undefined

\* o[k] = v
Put(o, k, v) == [x \in (DOMAIN o) \cup {k} |-> IF x = k THEN v ELSE o[x]]

\* delete o[k]
Del(o, k) == [x \in (DOMAIN o) \ {k} |-> o[x]]

(***************************************************************************)
(* IEEE arithmetic of the +=, -=, *= and /= operators on the numbers of    *)
(* the model.  Sign(x) is -1, 0 or 1; a NaN operand gives NaN.             *)
(***************************************************************************)
Sign(x) ==
  CASE x.c = "pinf" -> 1
    [] x.c = "ninf" -> -1
    [] x.c = "fin" /\ x.n > 0 -> 1
    [] x.c = "fin" /\ x.n < 0 -> -1
    [] OTHER -> 0

Inf(s) == IF s > 0 THEN PInf ELSE NInf

Neg(x) ==
  CASE x.c = "fin" -> Num(0 - x.n)
    [] x.c = "pinf" -> NInf
    [] x.c = "ninf" -> PInf
    [] OTHER -> NaN

JsAdd(x, y) ==
  CASE x.c = "nan" \/ y.c = "nan" -> NaN
    [] x.c = "fin" /\ y.c = "fin" -> Num(x.n + y.n)
    [] x.c = "fin" -> y
    [] y.c = "fin" -> x
    [] x.c = y.c -> x
    [] OTHER -> NaN

JsSub(x, y) == JsAdd(x, Neg(y))

JsMul(x, y) ==
  CASE x.c = "nan" \/ y.c = "nan" -> NaN
    [] x.c = "fin" /\ y.c = "fin" -> Num(x.n * y.n)
    [] Sign(x) = 0 \/ Sign(y) = 0 -> NaN
    [] OTHER -> Inf(Sign(x) * Sign(y))

Abs(i) == IF i < 0 THEN 0 - i ELSE i

\* x / y for y that is not zero; a finite quotient is in the model only when
\* it is exact (see Representable)
JsDiv(x, y) ==
  CASE x.c = "nan" \/ y.c = "nan" -> NaN
    [] x.c = "fin" /\ y.c = "fin" ->
         Num(Sign(x) * Sign(y) * (Abs(x.n) \div Abs(y.n)))
    [] x.c = "fin" -> Num(0)
    [] y.c = "fin" -> Inf(Sign(x) * Sign(y))
    [] OTHER -> NaN

\* the quotient x / y is an integer (or not finite)
ExactDiv(x, y) ==
  x.c = "fin" /\ y.c = "fin" => (y.n # 0 /\ Abs(x.n) % Abs(y.n) = 0)

\* the number lies within the bound of the model
Representable(x) == x.c = "fin" => Abs(x.n) <= MaxNum

(***************************************************************************)
(* The error catalog (src/unnamed/part_000).  errors.NAME of a name the    *)
(* catalog does not export is the value undefined.                         *)
(***************************************************************************)
errors ==
  [FILE_NOT_FOUND |-> "FILE_NOT_FOUND",
   INVALID_JSON |-> "INVALID_JSON",
   INVALID_VALUE |-> "INVALID_VALUE",
   KEY_NOT_FOUND |-> "KEY_NOT_FOUND",
   OBJECT_NOT_FOUND |-> "OBJECT_NOT_FOUND",
   ARRAY_NOT_FOUND |-> "ARRAY_NOT_FOUND"]

\* errors.NAME as the code reads it
Err(name) == IF name \in DOMAIN errors THEN errors[name] ELSE "undefined"

(***************************************************************************)
(* Files and their text.  A text is a JSON document in some layout, or     *)
(* text that JSON.parse rejects.  JSON.stringify(data, null, 2) writes the *)
(* layout "indent2"; a document has no undefined, no hole and no number    *)
(* that is not finite: JSON.stringify writes null for those inside an      *)
(* array and for the numbers, and leaves out a property holding undefined. *)
(***************************************************************************)
NoFile == [fmt |-> "absent", doc |-> EmptyObject]
Garbage == [fmt |-> "garbage", doc |-> EmptyObject]
Text(fmt, doc) == [fmt |-> fmt, doc |-> doc]

\* JSON.stringify leaves out a property holding this value
Omitted(v) == v.t \in {"undefined", "hole"}

RECURSIVE ToJSON(_)
ToJSON(v) ==
  CASE v.t = "number" -> IF v.c = "fin" THEN v ELSE Null
    [] v.t \in {"undefined", "hole"} -> Null
    [] v.t = "array" -> Arr([i \in 1..Len(v.a) |-> ToJSON(v.a[i])])
    [] v.t = "object" ->
         Obj([k \in {x \in DOMAIN v.o : ~Omitted(v.o[x])} |-> ToJSON(v.o[k])])
    [] OTHER -> v

\* JSON.stringify(d, null, 2) of the object d
JSONstringify(d) == Text("indent2", ToJSON(Obj(d)).o)

\* JSON.parse accepts the text
Parses(text) == text.fmt \notin {"absent", "garbage"}

\* JSON.parse(text) of a text it accepts
JSONparse(text) == text.doc

(***************************************************************************)
(* State.                                                                  *)
(*   data     this.data: the own properties of the object                  *)
(*   shared   the sets of keys of data that hold one and the same array or *)
(*            object (this.data[key] = value stores the reference)         *)
(*   file     the text of the file at this.filePath, or NoFile             *)
(*   calls    the calls in flight, in the order they were made, each at    *)
(*            the file system operation it awaits                          *)
(*   last     the outcome of the call that finished last, NoResult once a  *)
(*            later call is in flight                                      *)
(*   awaited  the program that uses the Database awaits every call before  *)
(*            it makes the next one                                        *)
(*   failed   the number of writes that failed since the last one that did *)
(*            not                                                          *)
(***************************************************************************)
VARIABLES data, shared, file, calls, last, awaited, failed

vars == <<data, shared, file, calls, last, awaited, failed>>

\* the keys used by the callers of the model; NotAString is a key argument
\* that is not a string
Keys == {"u1", "ad"}
NotAString == Num(1)

\* a call in flight: the method, its arguments, the file system operation it
\* awaits, the text it writes, and this.data when the call was made (kept for
\* the calls of a caller that has awaited every call)
Call(op, key, val, step, snap, pre) ==
  [op |-> op, key |-> key, val |-> val, step |-> step, snap |-> snap,
   pre |-> pre]

\* the outcome of a call: err is "none" or what the call threw, ret what it
\* returned, pre this.data when the call was made
Result(op, key, val, err, ret, pre) ==
  [op |-> op, key |-> key, val |-> val, err |-> err, ret |-> ret, pre |-> pre]

NoResult == Result("new", Undefined, Undefined, "none", Undefined, EmptyObject)

\* the files a Database may be constructed on
InitFiles ==
  {NoFile, Garbage, Text("compact", EmptyObject),
   Text("compact", [u1 |-> Num(2)])}

\* the sequence s without its i-th element
Drop(s, i) == [j \in 1..(Len(s) - 1) |-> IF j < i THEN s[j] ELSE s[j + 1]]

(***************************************************************************)
(* Keys that share one array or object.                                    *)
(***************************************************************************)
\* the keys holding the very object that key k holds
Group(sh, k) == IF \E g \in sh : k \in g THEN CHOOSE g \in sh : k \in g ELSE {k}

\* key k gets a value of its own
Unshare(sh, k) == {g \ {k} : g \in sh} \ {g \in {h \ {k} : h \in sh} : Cardinality(g) < 2}

\* key k gets the very object key src holds
Share(sh, k, src) ==
  LET rest == Unshare(sh, k)
  IN (rest \ {Group(rest, src)}) \cup {Group(rest, src) \cup {k}}

\* the object key k holds changes in place to v
InPlace(d, sh, k, v) == [x \in DOMAIN d |-> IF x \in Group(sh, k) THEN v ELSE d[x]]

(***************************************************************************)
(* constructor (lines 158-165): data is {} and load() is started, not      *)
(* awaited.                                                                *)
(***************************************************************************)
Init ==
  /\ data = EmptyObject
  /\ shared = {}
  /\ file \in InitFiles
  /\ calls = <<Call("new", Undefined, Undefined, "access", NoFile, EmptyObject)>>
  /\ last = NoResult
  /\ awaited \in BOOLEAN
  /\ failed = 0

(***************************************************************************)
(* What every method shares.                                               *)
(***************************************************************************)
\* the calls made by a caller that does not await its calls
NotAwaited ==
  {<<"set", Str("u1"), Num(2)>>, <<"set", Str("u1"), Str("s")>>,
   <<"set", Str("ad"), Num(2)>>, <<"fetch", Str("u1"), Undefined>>}

\* the reads (they are synchronous) that a program which awaits its calls
\* makes, from another of its handlers, while the call it awaits is in flight
Meanwhile == {<<"fetch", Str("u1"), Undefined>>}

\* the caller may make the call: a caller that awaits makes any call, once no
\* call is in flight, and the reads of Meanwhile while one is; a caller that
\* does not await makes the calls of NotAwaited, at any time
MayCall(op, key, val) ==
  IF awaited
  THEN calls = <<>> \/ <<op, key, val>> \in Meanwhile
  ELSE <<op, key, val>> \in NotAwaited

\* the call throws e before its first await: nothing but its outcome changes
Throw(op, key, val, e) ==
  /\ MayCall(op, key, val)
  /\ last' = Result(op, key, val, e, Undefined, data)
  /\ UNCHANGED <<data, shared, file, calls, awaited, failed>>

\* a method that reads returns ret
Return(op, key, val, ret) ==
  /\ MayCall(op, key, val)
  /\ last' = Result(op, key, val, "none", ret, data)
  /\ UNCHANGED <<data, shared, file, calls, awaited, failed>>

\* the call goes on to await a file system operation
Await(op, key, val, step, snap) ==
  /\ Len(calls) < MaxInFlight
  /\ MayCall(op, key, val)
  /\ calls' = Append(calls, Call(op, key, val, step, snap,
                                  IF awaited THEN data ELSE EmptyObject))
  /\ last' = NoResult
  /\ UNCHANGED <<file, awaited, failed>>

\* save() gone wrong: the text written is that of the data before the change
saveStale(op, key, val) ==
  Await(op, key, val, "writeFile", JSONstringify(data))

\* save() (lines 194-201) up to its await: the new data is serialized and
\* fs.writeFile is started
save(op, key, val) == Await(op, key, val, "writeFile", JSONstringify(data'))

\* call i finishes with outcome e
Settle(i, e) ==
  /\ calls' = Drop(calls, i)
  /\ last' = Result(calls[i].op, calls[i].key, calls[i].val, e, Undefined,
                    calls[i].pre)

(***************************************************************************)
(* The arguments the callers of the model pass.                            *)
(***************************************************************************)
\* u1 is the key the calls of the model work on, ad a second key beside it
U1 == Str("u1")
AD == Str("ad")

\* set(key, value) with a value of the caller's own
SetArgs ==
  {<<U1, v>> : v \in {Num(2), PInf, Str("s"), Bool(TRUE), Arr(<<Str("s")>>),
                      Obj([p |-> Num(1)]), Null, Undefined}}
    \cup {<<AD, Num(2)>>, <<NotAString, Num(2)>>}

\* set(key, fetch(src))
SetFetchedArgs == {<<AD, "u1">>}

PushArgs == {<<U1, Num(1)>>, <<U1, Null>>, <<U1, Undefined>>}

FetchArgs == {U1, AD, NotAString}

ArrayFetchArgs ==
  {<<U1, i>> : i \in {Num(-1), Num(0), Num(1), Num(2), Str("s")}}

RemoveArgs == {U1, AD}

DeleteArgs == {<<U1, Num(1)>>, <<U1, Str("s")>>, <<U1, Null>>, <<U1, Undefined>>}

DeleteKeyArgs == {<<U1, Str("p")>>, <<U1, NotAString>>}

HasArgs == {U1, NotAString}

ObjectFetchArgs == {<<U1, Str("p")>>, <<U1, Str("q")>>, <<U1, NotAString>>}

DeleteEachArgs == {Str("u"), Str("U"), Str("")}

\* subtract, multiply (key, operand)
ArithArgs == {<<U1, Num(2)>>, <<U1, Str("s")>>}

\* add (key, operand)
AddArgs == ArithArgs \cup {<<NotAString, Num(2)>>}

\* divide (key, operand)
DivideArgs == ArithArgs \cup {<<U1, Num(0)>>}

\* mod, power (key, operand)
ModArgs == {<<U1, Num(2)>>}

\* the characters of the strings compared by startsWith
Chars(s) ==
  CASE s = "u1" -> <<"u", "1">>
    [] s = "ad" -> <<"a", "d">>
    [] s = "u" -> <<"u">>
    [] s = "U" -> <<"U">>
    [] OTHER -> <<>>

\* k.startsWith(p) gone wrong: the case of the letters is ignored
StartsWithAnyCase(k, p) ==
  LET Lower(c) == IF c = "U" THEN "u" ELSE c
      low(s) == [i \in 1..Len(s) |-> Lower(s[i])]
  IN /\ Len(Chars(p)) <= Len(Chars(k))
     /\ SubSeq(low(Chars(k)), 1, Len(Chars(p))) = low(Chars(p))

\* k.startsWith(p)
StartsWith(k, p) ==
  /\ Len(Chars(p)) <= Len(Chars(k))
  /\ SubSeq(Chars(k), 1, Len(Chars(p))) = Chars(p)

\* Number.isInteger(v)
IsInteger(v) == v.t = "number" /\ v.c = "fin"

\* the array index a property name denotes, -1 when it denotes none
IndexOf(k) ==
  CASE k = "0" -> 0
    [] k = "1" -> 1
    [] k = "2" -> 2
    [] OTHER -> -1

\* array[index] gone wrong: a negative index counts from the end, as
\* array.at(index) does
AtWrap(a, index) ==
  LET i == IF index < 0 THEN Len(a) + index ELSE index
  IN IF 0 <= i /\ i < Len(a) /\ a[i + 1] # Hole THEN a[i + 1] ELSE Undefined

\* array[index] for an integer index
At(a, index) ==
  IF 0 <= index /\ index < Len(a) /\ a[index + 1] # Hole
  THEN a[index + 1]
  ELSE Undefined

\* filter gone wrong: only the first occurrence of value is removed, as
\* array.splice(array.indexOf(value), 1) does
RemoveFirst(a, value) ==
  IF \E i \in 1..Len(a) : StrictEq(a[i], value)
  THEN LET i == CHOOSE j \in 1..Len(a) :
                  /\ StrictEq(a[j], value)
                  /\ \A h \in 1..(j - 1) : ~StrictEq(a[h], value)
       IN SubSeq(a, 1, i - 1) \o SubSeq(a, i + 1, Len(a))
  ELSE a

\* array.filter(item => item !== value): empty slots are skipped
Filter(a, value) ==
  LET Keep(item) == item # Hole /\ ~StrictEq(item, value)
  IN SelectSeq(a, Keep)

\* v[k] for the array or object v and the string k
GetProp(v, k) ==
  IF v.t = "object"
  THEN Get(v.o, k)
  ELSE IF IndexOf(k) >= 0
       THEN At(v.a, IndexOf(k))
       ELSE IF k = "length" THEN Num(Len(v.a)) ELSE Undefined

\* `delete v[k]` on the array or object v
DeleteProp(v, k) ==
  IF v.t = "object"
  THEN Obj(Del(v.o, k))
  ELSE IF 0 <= IndexOf(k) /\ IndexOf(k) < Len(v.a)
       THEN Arr([v.a EXCEPT ![IndexOf(k) + 1] = Hole])
       ELSE v

\* the methods class Database defines (lines 157-473)
Methods ==
  {"load", "save", "set", "push", "objectFetch", "arrayFetch", "fetch",
   "remove", "delete", "deleteKey", "deleteEach", "clear", "destroy", "has",
   "add", "subtract", "multiply", "divide", "getAllKeys", "getAllValues"}

(***************************************************************************)
(* load() (lines 171-188).                                                 *)
(***************************************************************************)
load ==
  /\ Await("load", Undefined, Undefined, "access", NoFile)
  /\ UNCHANGED <<data, shared>>

\* load() gone wrong: the file is read without the test that it exists
accessSkipped(i) ==
  /\ i \in 1..Len(calls)
  /\ calls[i].step = "access"
  /\ calls' = [calls EXCEPT ![i].step = "readFile"]
  /\ UNCHANGED <<data, shared, file, last, awaited, failed>>

\* fs.access completes: the file exists, and fs.readFile is started, or
\* load throws FILE_NOT_FOUND
accessDone(i) ==
  /\ i \in 1..Len(calls)
  /\ calls[i].step = "access"
  /\ IF file # NoFile
     THEN /\ calls' = [calls EXCEPT ![i].step = "readFile"]
          /\ UNCHANGED last
     ELSE Settle(i, Err("FILE_NOT_FOUND"))
  /\ UNCHANGED <<data, shared, file, awaited, failed>>

\* load() gone wrong: the text is parsed and the result is dropped
readFileDropped(i) ==
  /\ i \in 1..Len(calls)
  /\ calls[i].step = "readFile"
  /\ IF file = NoFile
     THEN Settle(i, "ENOENT")
     ELSE IF Parses(file)
          THEN Settle(i, "none")
          ELSE Settle(i, Err("INVALID_JSON"))
  /\ UNCHANGED <<data, shared, file, awaited, failed>>

\* fs.readFile completes: the text is parsed into data, or load throws
\* INVALID_JSON, or (the file is gone since fs.access) the error of readFile
readFileDone(i) ==
  /\ i \in 1..Len(calls)
  /\ calls[i].step = "readFile"
  /\ IF file = NoFile
     THEN Settle(i, "ENOENT") /\ UNCHANGED <<data, shared>>
     ELSE IF Parses(file)
          THEN /\ data' = JSONparse(file)
               /\ shared' = {}
               /\ Settle(i, "none")
          ELSE Settle(i, Err("INVALID_JSON")) /\ UNCHANGED <<data, shared>>
  /\ UNCHANGED <<file, awaited, failed>>

(***************************************************************************)
(* save() (lines 194-201) from its await on.                               *)
(***************************************************************************)
\* save() gone wrong: the text is made when the write completes, from the
\* data of that moment
writeFileLate(i) ==
  /\ i \in 1..Len(calls)
  /\ calls[i].step = "writeFile"
  /\ file' = JSONstringify(data)
  /\ failed' = 0
  /\ Settle(i, "none")
  /\ UNCHANGED <<data, shared, awaited>>

\* fs.writeFile completes: the file holds the text
writeFileDone(i) ==
  /\ i \in 1..Len(calls)
  /\ calls[i].step = "writeFile"
  /\ file' = calls[i].snap
  /\ failed' = 0
  /\ Settle(i, "none")
  /\ UNCHANGED <<data, shared, awaited>>

\* save() gone wrong: when the write fails, data is put back to what it was
\* when the call was made
writeFileFailUndone(i) ==
  /\ i \in 1..Len(calls)
  /\ calls[i].step = "writeFile"
  /\ failed < MaxWriteFail
  /\ failed' = failed + 1
  /\ data' = calls[i].pre
  /\ shared' = {}
  /\ Settle(i, Err("FILE_NOT_FOUND"))
  /\ UNCHANGED <<file, awaited>>

\* fs.writeFile fails: save throws FILE_NOT_FOUND
writeFileFail(i) ==
  /\ i \in 1..Len(calls)
  /\ calls[i].step = "writeFile"
  /\ failed < MaxWriteFail
  /\ failed' = failed + 1
  /\ Settle(i, Err("FILE_NOT_FOUND"))
  /\ UNCHANGED <<data, shared, file, awaited>>

(***************************************************************************)
(* set (lines 209-215).  src names the key whose array the caller passes   *)
(* (what fetch(src) returned); "" when the value is the caller's own.      *)
(***************************************************************************)
\* set gone wrong: the value is not checked
setUnchecked(key, value, src) ==
  IF TypeOf(key) # "string"
  THEN Throw("set", key, value, Err("INVALID_VALUE"))
  ELSE /\ data' = Put(data, key.s, value)
       /\ shared' = Unshare(shared, key.s)
       /\ save("set", key, value)

set(key, value, src) ==
  IF TypeOf(key) # "string" \/ value = Null \/ value = Undefined
  THEN Throw("set", key, value, Err("INVALID_VALUE"))
  ELSE /\ data' = Put(data, key.s, value)
       /\ shared' = IF src = "" THEN Unshare(shared, key.s)
                    ELSE IF src = key.s THEN shared
                    ELSE Share(shared, key.s, src)
       /\ save("set", key, value)

(***************************************************************************)
(* push (lines 223-232).                                                   *)
(***************************************************************************)
push(key, value) ==
  IF TypeOf(key) # "string" \/ value = Null \/ value = Undefined
  THEN Throw("push", key, value, Err("INVALID_VALUE"))
  ELSE IF ~IsArray(Get(data, key.s))
       THEN /\ data' = Put(data, key.s, Arr(<<value>>))
            /\ shared' = Unshare(shared, key.s)
            /\ save("push", key, value)
       ELSE /\ Len(data[key.s].a) < MaxLen
            /\ data' = InPlace(data, shared, key.s,
                               Arr(Append(data[key.s].a, value)))
            /\ UNCHANGED shared
            /\ save("push", key, value)

(***************************************************************************)
(* fetch (lines 276-281), arrayFetch (lines 259-268), getAllKeys (lines    *)
(* 462-464).                                                               *)
(***************************************************************************)
fetch(key) ==
  IF TypeOf(key) # "string"
  THEN Throw("fetch", key, Undefined, Err("INVALID_VALUE"))
  ELSE Return("fetch", key, Undefined, Get(data, key.s))

arrayFetch(key, index) ==
  IF TypeOf(key) # "string" \/ ~IsInteger(index)
  THEN Throw("arrayFetch", key, index, Err("INVALID_VALUE"))
  ELSE IF ~IsArray(Get(data, key.s))
       THEN Throw("arrayFetch", key, index, Err("ARRAY_NOT_FOUND"))
       ELSE Return("arrayFetch", key, index, At(data[key.s].a, index.n))

\* objectFetch gone wrong: a missing entry is created as an empty object and
\* saved
objectFetchCreating(key, subKey) ==
  IF TypeOf(key) # "string" \/ TypeOf(subKey) # "string"
  THEN Throw("objectFetch", key, subKey, Err("INVALID_VALUE"))
  ELSE IF ~Truthy(Get(data, key.s)) \/ TypeOf(Get(data, key.s)) # "object"
       THEN /\ data' = Put(data, key.s, Obj(EmptyObject))
            /\ shared' = Unshare(shared, key.s)
            /\ save("objectFetch", key, subKey)
       ELSE Return("objectFetch", key, subKey, GetProp(data[key.s], subKey.s))

\* objectFetch (lines 241-250)
objectFetch(key, subKey) ==
  IF TypeOf(key) # "string" \/ TypeOf(subKey) # "string"
  THEN Throw("objectFetch", key, subKey, Err("INVALID_VALUE"))
  ELSE IF ~Truthy(Get(data, key.s)) \/ TypeOf(Get(data, key.s)) # "object"
       THEN Throw("objectFetch", key, subKey, Err("OBJECT_NOT_FOUND"))
       ELSE Return("objectFetch", key, subKey, GetProp(data[key.s], subKey.s))

getAllKeys ==
  Return("getAllKeys", Undefined, Undefined, [t |-> "keys", ks |-> DOMAIN data])

\* has (lines 376-381)
has(key) ==
  IF TypeOf(key) # "string"
  THEN Throw("has", key, Undefined, Err("INVALID_VALUE"))
  ELSE Return("has", key, Undefined, Bool(key.s \in DOMAIN data))

\* getAllValues (lines 470-472): the values, each under the key it is at
getAllValues ==
  Return("getAllValues", Undefined, Undefined, [t |-> "values", vs |-> data])

(***************************************************************************)
(* remove (lines 288-294), delete (lines 302-310), deleteKey (lines        *)
(* 318-328), deleteEach (lines 335-345), clear (lines 351-354).            *)
(***************************************************************************)
remove(key) ==
  IF TypeOf(key) # "string"
  THEN Throw("remove", key, Undefined, Err("INVALID_VALUE"))
  ELSE /\ data' = Del(data, key.s)
       /\ shared' = Unshare(shared, key.s)
       /\ save("remove", key, Undefined)

delete(key, value) ==
  IF TypeOf(key) # "string" \/ value = Null \/ value = Undefined
  THEN Throw("delete", key, value, Err("INVALID_VALUE"))
  ELSE IF IsArray(Get(data, key.s))
       THEN /\ data' = Put(data, key.s, Arr(Filter(data[key.s].a, value)))
            /\ shared' = Unshare(shared, key.s)
            /\ save("delete", key, value)
       ELSE Return("delete", key, value, Undefined)

deleteKey(objectKey, key) ==
  IF TypeOf(objectKey) # "string" \/ TypeOf(key) # "string"
  THEN Throw("deleteKey", objectKey, key, Err("INVALID_VALUE"))
  ELSE IF Truthy(Get(data, objectKey.s)) /\ TypeOf(Get(data, objectKey.s)) = "object"
       THEN /\ data' = InPlace(data, shared, objectKey.s,
                               DeleteProp(data[objectKey.s], key.s))
            /\ UNCHANGED shared
            /\ save("deleteKey", objectKey, key)
       ELSE Throw("deleteKey", objectKey, key, Err("OBJECT_NOT_FOUND"))

deleteEach(key) ==
  IF TypeOf(key) # "string"
  THEN Throw("deleteEach", key, Undefined, Err("INVALID_VALUE"))
  ELSE /\ data' = [k \in {x \in DOMAIN data : ~StartsWith(x, key.s)} |-> data[k]]
       /\ shared' = {g \in {h \cap DOMAIN data' : h \in shared} : Cardinality(g) >= 2}
       /\ save("deleteEach", key, Undefined)

clear ==
  /\ data' = EmptyObject
  /\ shared' = {}
  /\ save("clear", Undefined, Undefined)

(***************************************************************************)
(* destroy (lines 360-368).                                                *)
(***************************************************************************)
\* destroy gone wrong: data is cleared before the file is deleted
destroyClearingFirst ==
  /\ Await("destroy", Undefined, Undefined, "unlink", NoFile)
  /\ data' = EmptyObject
  /\ shared' = {}

destroy ==
  /\ Await("destroy", Undefined, Undefined, "unlink", NoFile)
  /\ UNCHANGED <<data, shared>>

\* the end of fs.unlink gone wrong: clear() runs also when there was no file
\* to delete, and its save creates one
unlinkDoneClearing(i) ==
  /\ i \in 1..Len(calls)
  /\ calls[i].step = "unlink"
  /\ file' = NoFile
  /\ data' = EmptyObject
  /\ shared' = {}
  /\ calls' = [calls EXCEPT ![i].step = "writeFile",
                            ![i].snap = JSONstringify(data')]
  /\ UNCHANGED <<last, awaited, failed>>

\* fs.unlink completes: the file is gone and clear() runs up to the await of
\* its save, or (no file to delete) destroy throws FILE_NOT_FOUND
unlinkDone(i) ==
  /\ i \in 1..Len(calls)
  /\ calls[i].step = "unlink"
  /\ IF file # NoFile
     THEN /\ file' = NoFile
          /\ data' = EmptyObject
          /\ shared' = {}
          /\ calls' = [calls EXCEPT ![i].step = "writeFile",
                                    ![i].snap = JSONstringify(data')]
          /\ UNCHANGED last
     ELSE /\ Settle(i, Err("FILE_NOT_FOUND"))
          /\ UNCHANGED <<data, shared, file>>
  /\ UNCHANGED <<awaited, failed>>

(***************************************************************************)
(* add (lines 389-399), subtract (lines 407-417), multiply (lines          *)
(* 425-435), divide (lines 443-456).  A result outside the numbers of the  *)
(* model is not followed.                                                  *)
(***************************************************************************)
\* add gone wrong: an entry that is not a number counts as 0
addFromZero(key, value) ==
  IF TypeOf(key) # "string" \/ TypeOf(value) # "number"
  THEN Throw("add", key, value, Err("INVALID_VALUE"))
  ELSE LET old == IF TypeOf(Get(data, key.s)) = "number"
                  THEN data[key.s] ELSE Num(0)
       IN /\ Representable(JsAdd(old, value))
          /\ data' = Put(data, key.s, JsAdd(old, value))
          /\ shared' = Unshare(shared, key.s)
          /\ save("add", key, value)

add(key, value) ==
  IF TypeOf(key) # "string" \/ TypeOf(value) # "number"
  THEN Throw("add", key, value, Err("INVALID_VALUE"))
  ELSE IF TypeOf(Get(data, key.s)) = "number"
       THEN /\ Representable(JsAdd(data[key.s], value))
            /\ data' = Put(data, key.s, JsAdd(data[key.s], value))
            /\ UNCHANGED shared
            /\ save("add", key, value)
       ELSE Throw("add", key, value, Err("INVALID_VALUE"))

subtract(key, value) ==
  IF TypeOf(key) # "string" \/ TypeOf(value) # "number"
  THEN Throw("subtract", key, value, Err("INVALID_VALUE"))
  ELSE IF TypeOf(Get(data, key.s)) = "number"
       THEN /\ Representable(JsSub(data[key.s], value))
            /\ data' = Put(data, key.s, JsSub(data[key.s], value))
            /\ UNCHANGED shared
            /\ save("subtract", key, value)
       ELSE Throw("subtract", key, value, Err("INVALID_VALUE"))

\* multiply gone wrong: += where *= is meant
multiplyAsAdd(key, value) ==
  IF TypeOf(key) # "string" \/ TypeOf(value) # "number"
  THEN Throw("multiply", key, value, Err("INVALID_VALUE"))
  ELSE IF TypeOf(Get(data, key.s)) = "number"
       THEN /\ Representable(JsAdd(data[key.s], value))
            /\ data' = Put(data, key.s, JsAdd(data[key.s], value))
            /\ UNCHANGED shared
            /\ save("multiply", key, value)
       ELSE Throw("multiply", key, value, Err("INVALID_VALUE"))

multiply(key, value) ==
  IF TypeOf(key) # "string" \/ TypeOf(value) # "number"
  THEN Throw("multiply", key, value, Err("INVALID_VALUE"))
  ELSE IF TypeOf(Get(data, key.s)) = "number"
       THEN /\ Representable(JsMul(data[key.s], value))
            /\ data' = Put(data, key.s, JsMul(data[key.s], value))
            /\ UNCHANGED shared
            /\ save("multiply", key, value)
       ELSE Throw("multiply", key, value, Err("INVALID_VALUE"))

divide(key, value) ==
  IF TypeOf(key) # "string" \/ TypeOf(value) # "number"
  THEN Throw("divide", key, value, Err("INVALID_VALUE"))
  ELSE IF TypeOf(Get(data, key.s)) = "number"
       THEN IF value = Num(0)
            THEN Throw("divide", key, value, Err("DIVISION_BY_ZERO"))
            ELSE /\ ExactDiv(data[key.s], value)
                 /\ Representable(JsDiv(data[key.s], value))
                 /\ data' = Put(data, key.s, JsDiv(data[key.s], value))
                 /\ UNCHANGED shared
                 /\ save("divide", key, value)
       ELSE Throw("divide", key, value, Err("INVALID_VALUE"))

(***************************************************************************)
(* mod and power are declared (lines 125-137) and class Database defines   *)
(* neither: the call of a property that is undefined throws a TypeError.   *)
(***************************************************************************)
mod(key, value) ==
  /\ "mod" \notin Methods
  /\ Throw("mod", key, value, "TypeError")

power(key, exponent) ==
  /\ "power" \notin Methods
  /\ Throw("power", key, exponent, "TypeError")

(***************************************************************************)
(* createBackup, restoreBackup (lines 5-15), setBackup and loadBackup      *)
(* (lines 139-149) are declared, and README.md (lines 146-149) shows the   *)
(* last two; class Database defines none of them.                          *)
(***************************************************************************)
\* the path of a backup file
BackupPath == Str("backup.json")

createBackup(backupPath) ==
  /\ "createBackup" \notin Methods
  /\ Throw("createBackup", backupPath, Undefined, "TypeError")

restoreBackup(backupPath) ==
  /\ "restoreBackup" \notin Methods
  /\ Throw("restoreBackup", backupPath, Undefined, "TypeError")

setBackup(backupFile) ==
  /\ "setBackup" \notin Methods
  /\ Throw("setBackup", backupFile, Undefined, "TypeError")

loadBackup(backupFile) ==
  /\ "loadBackup" \notin Methods
  /\ Throw("loadBackup", backupFile, Undefined, "TypeError")

(***************************************************************************)
(* new Database(file) on the same path (constructor, lines 158-165), made  *)
(* while the instance before it has no call in flight.  The model goes on  *)
(* with the new instance; the call of its load keeps, for comparison, the  *)
(* data of the instance before it (pre) and whether that instance was last *)
(* called with a set that was awaited and succeeded (val).                 *)
(***************************************************************************)
construct ==
  /\ calls = <<>>
  /\ data' = EmptyObject
  /\ shared' = {}
  /\ calls' = <<Call("new", Undefined,
                     Bool(awaited /\ last.op = "set" /\ last.err = "none"),
                     "access", NoFile, data)>>
  /\ last' = NoResult
  /\ failed' = 0
  /\ UNCHANGED <<file, awaited>>

(***************************************************************************)
(* The specification.                                                      *)
(***************************************************************************)
Next ==
  \/ construct
  \/ load
  \/ \E i \in 1..Len(calls) : accessDone(i)
  \/ \E i \in 1..Len(calls) : readFileDone(i)
  \/ \E i \in 1..Len(calls) : writeFileDone(i)
  \/ \E i \in 1..Len(calls) : writeFileFail(i)
  \/ \E i \in 1..Len(calls) : unlinkDone(i)
  \/ \E a \in SetArgs : set(a[1], a[2], "")
  \/ \E a \in SetFetchedArgs :
       /\ IsArray(Get(data, a[2]))
       /\ set(a[1], data[a[2]], a[2])
  \/ \E a \in PushArgs : push(a[1], a[2])
  \/ \E key \in FetchArgs : fetch(key)
  \/ \E a \in ArrayFetchArgs : arrayFetch(a[1], a[2])
  \/ \E a \in ObjectFetchArgs : objectFetch(a[1], a[2])
  \/ getAllKeys
  \/ \E key \in HasArgs : has(key)
  \/ getAllValues
  \/ \E key \in RemoveArgs : remove(key)
  \/ \E a \in DeleteArgs : delete(a[1], a[2])
  \/ \E a \in DeleteKeyArgs : deleteKey(a[1], a[2])
  \/ \E key \in DeleteEachArgs : deleteEach(key)
  \/ clear
  \/ destroy
  \/ \E a \in AddArgs : add(a[1], a[2])
  \/ \E a \in ArithArgs : subtract(a[1], a[2])
  \/ \E a \in ArithArgs : multiply(a[1], a[2])
  \/ \E a \in DivideArgs : divide(a[1], a[2])
  \/ \E a \in ModArgs : mod(a[1], a[2])
  \/ \E a \in ModArgs : power(a[1], a[2])
  \/ createBackup(BackupPath)
  \/ restoreBackup(BackupPath)
  \/ setBackup(BackupPath)
  \/ loadBackup(BackupPath)

Spec == Init /\ [][Next]_vars

\* an empty store: the Database is constructed where there is no file, or
\* where the file holds the document {}
InitEmpty ==
  /\ Init
  /\ file \in {NoFile, Text("compact", EmptyObject)}

SpecEmpty == InitEmpty /\ [][Next]_vars

(***************************************************************************)
(* Properties.  They speak of the call that finished last: last.pre is     *)
(* this.data when that call was made, data and file are what it left.      *)
(***************************************************************************)
\* the methods that change data
Mutating ==
  {"set", "push", "remove", "delete", "deleteKey", "deleteEach", "clear",
   "destroy", "add", "subtract", "multiply", "divide"}

\* the call that finished last was awaited and succeeded, and no call has
\* been made since
Succeeded(ops) ==
  /\ awaited
  /\ calls = <<>>
  /\ last.op \in ops
  /\ last.err = "none"

\* the call that finished last was a delete of an entry that is not an array
DeleteOfNoArray ==
  /\ last.op = "delete"
  /\ ~IsArray(Get(last.pre, last.key.s))

\* C1, as stated: with calls awaited one at a time, after every successful
\* mutating operation (delete included) the file holds exactly the
\* serialization of data.
C1_FileIsDataAfterMutation ==
  Succeeded(Mutating) => file = JSONstringify(data)

\* C1, amended: with calls awaited one at a time, after every successful
\* mutating operation other than a delete of an entry that is not an array,
\* the file holds exactly the serialization of data.
C1_FileIsDataAfterSave ==
  (Succeeded(Mutating) /\ ~DeleteOfNoArray) => file = JSONstringify(data)

\* a delete took an element out of an array and the file holds the result
C1_Witness ==
  /\ Succeeded({"delete"})
  /\ IsArray(Get(last.pre, "u1"))
  /\ data # last.pre
  /\ file = JSONstringify(data)
  /\ file # NoFile

\* C2, as stated: after a successful destroy() getAllKeys() is empty and the
\* backing file no longer exists (the instance then accepts a set, which
\* writes the file anew).
C2_DestroyRemovesFile ==
  Succeeded({"destroy"}) => (DOMAIN data = {} /\ file = NoFile)

\* a value JSON represents as it is: a finite number, a string, a boolean,
\* null, or an array or object of such values
RECURSIVE JsonSafe(_)
JsonSafe(v) ==
  CASE v.t = "number" -> v.c = "fin"
    [] v.t \in {"string", "boolean", "null"} -> TRUE
    [] v.t = "array" -> \A i \in 1..Len(v.a) : JsonSafe(v.a[i])
    [] v.t = "object" -> \A k \in DOMAIN v.o : JsonSafe(v.o[k])
    [] OTHER -> FALSE

\* a new instance, constructed on the file after an awaited set succeeded on
\* the instance before it, has finished its load
Reloaded ==
  /\ last.op = "new"
  /\ last.val = Bool(TRUE)
  /\ last.err = "none"

\* C3, as stated: after awaited set calls, a new instance on the same file
\* has, once loaded, the same keys and an equal value at every key.
C3_RoundTrip ==
  Reloaded =>
    /\ DOMAIN data = DOMAIN last.pre
    /\ \A k \in DOMAIN data : data[k] = last.pre[k]

\* C3, amended: the same, for data in which every value is one JSON
\* represents (finite numbers, strings, booleans, null, arrays and objects
\* of these).
C3_RoundTripJson ==
  (Reloaded /\ \A k \in DOMAIN last.pre : JsonSafe(last.pre[k])) =>
    /\ DOMAIN data = DOMAIN last.pre
    /\ \A k \in DOMAIN data : data[k] = last.pre[k]

\* a new instance has loaded an array and a number set on the one before it
C3_Witness ==
  /\ Reloaded
  /\ DOMAIN data = {"u1", "ad"}
  /\ IsArray(data["u1"])
  /\ data = last.pre

\* the value is null or undefined
Absent(v) == v \in {Null, Undefined}

\* this step finishes a call of one of ops (it throws or completes)
Finishes(ops) ==
  /\ last' # last
  /\ last'.op \in ops

\* C4, as stated: set, push and delete with a null or undefined value fail
\* with INVALID_VALUE and leave data and the file as they are; and in no
\* state reached from an empty store does a key of data map to null or
\* undefined.
C4_NoAbsentValue ==
  /\ (last.op \in {"set", "push", "delete"} /\ Absent(last.val)) =>
       (last.err = errors.INVALID_VALUE /\ data = last.pre)
  /\ \A k \in DOMAIN data : ~Absent(data[k])

\* C4, amended: set, push and delete with a null or undefined value fail
\* with INVALID_VALUE and leave data and the file as they are; and the only
\* step that puts null or undefined at a key of data is the completion of a
\* load (of the constructor's, too), which parses what the file holds.
C4_AbsentOnlyLoaded ==
  [][/\ (Finishes({"set", "push", "delete"}) /\ Absent(last'.val)) =>
          /\ last'.err = errors.INVALID_VALUE
          /\ data' = data
          /\ file' = file
          /\ calls' = calls
     /\ \A k \in DOMAIN data' :
          Absent(data'[k]) =>
            \/ k \in DOMAIN data /\ data[k] = data'[k]
            \/ /\ \E i \in 1..Len(calls) :
                    /\ calls[i].op \in {"new", "load"}
                    /\ calls[i].step = "readFile"
                    /\ calls' = Drop(calls, i)
               /\ file' = file
               /\ Parses(file)
               /\ data' = JSONparse(file)]_vars

\* set(u1, null) is rejected while u1 holds a null that a load brought in
C4_Witness ==
  /\ last.op = "set"
  /\ last.val = Null
  /\ last.err = errors.INVALID_VALUE
  /\ "u1" \in DOMAIN data
  /\ data["u1"] = Null

\* add, subtract, multiply, divide
Arithmetic == {"add", "subtract", "multiply", "divide"}

\* the call that finished last had a string key at which data, when the call
\* was made, held no number
OnNoNumber ==
  /\ TypeOf(last.key) = "string"
  /\ TypeOf(Get(last.pre, last.key.s)) # "number"

\* C5: add, subtract, multiply and divide on a key that is missing or holds
\* a value that is not a number fail with INVALID_VALUE and leave data (the
\* key is not set to zero) and the file unchanged.
C5_ArithmeticPrecondition ==
  [][(Finishes(Arithmetic) /\ TypeOf(last'.key) = "string"
        /\ TypeOf(Get(last'.pre, last'.key.s)) # "number") =>
       /\ last'.err = errors.INVALID_VALUE
       /\ last'.pre = data
       /\ data' = data
       /\ file' = file
       /\ calls' = calls]_vars

\* a multiply on a key holding an array has thrown INVALID_VALUE
C5_Witness ==
  /\ last.op = "multiply"
  /\ OnNoNumber
  /\ IsArray(Get(last.pre, "u1"))
  /\ last.err = errors.INVALID_VALUE
  /\ data = last.pre

\* C6, as stated: divide(key, 0) fails with DIVISION_BY_ZERO whatever the
\* key holds (a number, something else, nothing) and leaves data unchanged.
C6_DivisionGuard ==
  (last.op = "divide" /\ TypeOf(last.key) = "string" /\ last.val = Num(0)) =>
    /\ last.err = "DIVISION_BY_ZERO"
    /\ data = last.pre

\* every key but key holds what it held when the call was made
OthersKept(key) ==
  /\ DOMAIN data \ {key} = DOMAIN last.pre \ {key}
  /\ \A k \in DOMAIN data \ {key} : data[k] = last.pre[k]

\* the call that finished last is op, awaited and successful, on a key that
\* held a finite number, with a finite operand
Computed(op) ==
  /\ Succeeded({op})
  /\ TypeOf(last.val) = "number"
  /\ last.val.c = "fin"
  /\ TypeOf(Get(last.pre, last.key.s)) = "number"
  /\ last.pre[last.key.s].c = "fin"

\* C7: on a key holding the number n, a successful add, subtract, multiply,
\* divide with the operand v (not zero for divide) leaves n + v, n - v,
\* n * v, n / v at the key, every other key as it was, and the new data in
\* the file (over the integers of the model, divide on exact quotients).
C7_ArithmeticResult ==
  \A op \in Arithmetic :
    Computed(op) =>
      LET n == last.pre[last.key.s].n
          v == last.val.n
          r == Get(data, last.key.s)
      IN /\ TypeOf(r) = "number"
         /\ r.c = "fin"
         /\ CASE op = "add" -> r.n = n + v
              [] op = "subtract" -> r.n = n - v
              [] op = "multiply" -> r.n = n * v
              [] op = "divide" -> v # 0 /\ r.n * v = n
         /\ OthersKept(last.key.s)
         /\ file = JSONstringify(data)

\* a divide has taken 2 to 1 beside a second key
C7_Witness ==
  /\ Computed("divide")
  /\ last.pre["u1"] = Num(2)
  /\ data["u1"] = Num(1)
  /\ "ad" \in DOMAIN data
  /\ file = JSONstringify(data)

\* n modulo v as the % operator of the language computes it (the sign is
\* that of n)
Rem(n, v) == Sign(Num(n)) * (Abs(n) % Abs(v))

\* n to the power e, for e >= 0
RECURSIVE Pow(_, _)
Pow(n, e) == IF e = 0 THEN 1 ELSE n * Pow(n, e - 1)

\* C8, as stated: mod and power are operations: on a key holding the number
\* n they leave n mod v, n to the power e at the key and in the file; on a
\* key that is missing or holds no number they fail with INVALID_VALUE; and
\* mod with the operand 0 fails with a division by zero.
C8_ModAndPower ==
  (last.op \in {"mod", "power"} /\ TypeOf(last.key) = "string"
     /\ TypeOf(last.val) = "number" /\ last.val.c = "fin") =>
    IF TypeOf(Get(last.pre, last.key.s)) # "number"
    THEN last.err = errors.INVALID_VALUE
    ELSE IF last.op = "mod" /\ last.val.n = 0
         THEN last.err \notin {"none", "TypeError"}
         ELSE /\ last.err = "none"
              /\ last.pre[last.key.s].c = "fin" =>
                   /\ Get(data, last.key.s) =
                        Num(IF last.op = "mod"
                            THEN Rem(last.pre[last.key.s].n, last.val.n)
                            ELSE Pow(last.pre[last.key.s].n, last.val.n))
                   /\ file = JSONstringify(data)

\* C9, as stated: push(key, v) with v neither null nor undefined never fails
\* with ARRAY_NOT_FOUND; when it succeeds the entry is the array it was with
\* v appended, or [v] when it was no array, every other key is unchanged,
\* and the file holds the new data.
C9_PushAppends ==
  (awaited /\ calls = <<>> /\ last.op = "push"
     /\ TypeOf(last.key) = "string" /\ ~Absent(last.val)) =>
    /\ last.err # errors.ARRAY_NOT_FOUND
    /\ last.err = "none" =>
         /\ Get(data, last.key.s) =
              IF IsArray(Get(last.pre, last.key.s))
              THEN Arr(Append(last.pre[last.key.s].a, last.val))
              ELSE Arr(<<last.val>>)
         /\ OthersKept(last.key.s)
         /\ file = JSONstringify(data)

\* C10: arrayFetch(key, index) with a string key and an integer index fails
\* with ARRAY_NOT_FOUND when the entry is missing or no array; else it
\* returns the element at the zero-based position index when
\* 0 <= index < length, and undefined, without an error, for any other
\* index (no wrap-around).
C10_ArrayFetch ==
  (last.op = "arrayFetch" /\ TypeOf(last.key) = "string"
     /\ last.val.t = "number" /\ last.val.c = "fin") =>
    IF ~IsArray(Get(last.pre, last.key.s))
    THEN last.err = errors.ARRAY_NOT_FOUND
    ELSE LET a == last.pre[last.key.s].a
             i == last.val.n
         IN /\ last.err = "none"
            /\ last.ret = IF 0 <= i /\ i < Len(a) THEN a[i + 1] ELSE Undefined
            /\ data = last.pre

\* arrayFetch(u1, -1) on an array of two elements has returned undefined
C10_Witness ==
  /\ last.op = "arrayFetch"
  /\ last.val = Num(-1)
  /\ IsArray(Get(last.pre, "u1"))
  /\ Len(last.pre["u1"].a) = 2
  /\ last.err = "none"
  /\ last.ret = Undefined

\* the pairs <<key, prefix>>, among the keys and prefixes of the model, in
\* which the key starts with the prefix
Prefixed == {<<"u1", "u">>, <<"u1", "">>, <<"ad", "">>}

\* C11: deleteEach(prefix) removes exactly the keys that start with prefix
\* (case-sensitive): afterwards they are absent, every other key is present
\* with its value unchanged, and the file is written once, after all the
\* deletions (the one write of the call carries the final data).
C11_DeleteEach ==
  /\ \A i \in 1..Len(calls) :
       (awaited /\ calls[i].op = "deleteEach") =>
         /\ calls[i].step = "writeFile"
         /\ calls[i].snap = JSONstringify(data)
         /\ DOMAIN data =
              {k \in DOMAIN calls[i].pre : <<k, calls[i].key.s>> \notin Prefixed}
  /\ Succeeded({"deleteEach"}) =>
       /\ DOMAIN data =
            {k \in DOMAIN last.pre : <<k, last.key.s>> \notin Prefixed}
       /\ \A k \in DOMAIN data : data[k] = last.pre[k]
       /\ file = JSONstringify(data)

\* deleteEach("u") has removed u1 and kept ad
C11_Witness ==
  /\ Succeeded({"deleteEach"})
  /\ last.key = Str("u")
  /\ DOMAIN last.pre = {"u1", "ad"}
  /\ DOMAIN data = {"ad"}
  /\ data["ad"] = last.pre["ad"]

\* C12, as stated: objectFetch and deleteKey fail with OBJECT_NOT_FOUND and
\* leave data as it is when the entry is absent, a scalar or an array; on an
\* object that is no array objectFetch returns the value of the sub-key
\* (undefined if missing) and deleteKey removes that sub-key only.
C12_ObjectOnly ==
  (last.op \in {"objectFetch", "deleteKey"} /\ TypeOf(last.key) = "string"
     /\ TypeOf(last.val) = "string" /\ (awaited /\ calls = <<>>)) =>
    LET entry == Get(last.pre, last.key.s)
    IN IF entry.t = "object"
       THEN /\ last.op = "objectFetch" =>
                 (last.err = "none" /\ last.ret = Get(entry.o, last.val.s)
                    /\ data = last.pre)
            /\ (last.op = "deleteKey" /\ last.err = "none") =>
                 /\ Get(data, last.key.s) = Obj(Del(entry.o, last.val.s))
                 /\ OthersKept(last.key.s)
                 /\ file = JSONstringify(data)
       ELSE /\ last.err = errors.OBJECT_NOT_FOUND
            /\ data = last.pre

\* the sequence a without the elements equal to v, the others in their order
RECURSIVE Without(_, _)
Without(a, v) ==
  IF a = <<>>
  THEN <<>>
  ELSE IF Head(a) = v
       THEN Without(Tail(a), v)
       ELSE <<Head(a)>> \o Without(Tail(a), v)

\* C13: delete(key, v) with v neither null nor undefined: on an array, the
\* array afterwards holds no element equal to v and the other elements in
\* their order, and the file holds the result; on an entry that is missing
\* or no array the call throws nothing, and changes neither data nor the
\* file, and starts no write.
C13_Delete ==
  [][(Finishes({"delete"}) /\ TypeOf(last'.key) = "string"
        /\ ~Absent(last'.val)) =>
       IF IsArray(Get(last'.pre, last'.key.s))
       THEN last'.err = "none" =>
              /\ IsArray(Get(data', last'.key.s))
              /\ \A i \in 1..Len(data'[last'.key.s].a) :
                   data'[last'.key.s].a[i] # last'.val
              /\ data'[last'.key.s].a =
                   Without(last'.pre[last'.key.s].a, last'.val)
              /\ file' = JSONstringify(data')
       ELSE /\ last'.err = "none"
            /\ data' = data
            /\ last'.pre = data
            /\ file' = file
            /\ calls' = calls]_vars

\* delete(u1, 1) has taken both elements out of the array [1, 1]
C13_Witness ==
  /\ Succeeded({"delete"})
  /\ last.val = Num(1)
  /\ IsArray(Get(last.pre, "u1"))
  /\ last.pre["u1"].a = <<Num(1), Num(1)>>
  /\ data["u1"] = Arr(<<>>)

\* C14, as stated: createBackup / setBackup(p) writes the serialization of
\* data to p and changes neither data nor the primary file; a later
\* restoreBackup / loadBackup(p) replaces data by the content of p and
\* persists it, so that data and the primary file are the state at backup
\* time.  Either way the call succeeds; after a restore the primary file
\* holds the serialization of data.
C14_BackupRoundTrip ==
  /\ last.op \in {"createBackup", "setBackup"} =>
       (last.err = "none" /\ data = last.pre)
  /\ last.op \in {"restoreBackup", "loadBackup"} =>
       (last.err = "none" /\ file = JSONstringify(data))

\* C15: load() throws FILE_NOT_FOUND when there is no file at the path and
\* INVALID_JSON when the text of the file does not parse, and leaves data as
\* it was in both cases (empty, for the load of the constructor); when the
\* file exists and parses, data is what the text parses to.
C15_Load ==
  (awaited /\ calls = <<>> /\ last.op \in {"load", "new"} /\ last # NoResult) =>
    LET before == IF last.op = "load" THEN last.pre ELSE EmptyObject
    IN CASE file.fmt = "absent" ->
              last.err = errors.FILE_NOT_FOUND /\ data = before
         [] file.fmt = "garbage" ->
              last.err = errors.INVALID_JSON /\ data = before
         [] OTHER ->
              last.err = "none" /\ data = file.doc

\* a load() of text that does not parse has thrown INVALID_JSON and left the
\* data it found
C15_Witness ==
  /\ awaited
  /\ calls = <<>>
  /\ last.op = "load"
  /\ file = Garbage
  /\ last.err = errors.INVALID_JSON
  /\ data # EmptyObject
  /\ data = last.pre

\* the methods that read
Reading ==
  {"fetch", "has", "objectFetch", "arrayFetch", "getAllKeys", "getAllValues"}

\* C16: fetch, has, objectFetch, arrayFetch, getAllKeys and getAllValues,
\* whether they return or throw, leave data and the file unchanged and start
\* no write of the file.
C16_ReadsArePure ==
  [][Finishes(Reading) =>
       /\ data' = data
       /\ shared' = shared
       /\ file' = file
       /\ calls' = calls]_vars

\* has(u1) has returned true, with the data and the file it found
C16_Witness ==
  /\ last.op = "has"
  /\ last.ret = Bool(TRUE)
  /\ "u1" \in DOMAIN data
  /\ data = last.pre
  /\ file = JSONstringify(data)

\* C17: the writes of calls that overlap are not ordered by a lock or a
\* queue: whichever write completes, whatever its place among the calls in
\* flight, leaves the file holding the snapshot made when its call was
\* issued, and leaves data alone; so the write that completes last decides
\* the file, also when it is the earlier call's and lacks the later
\* mutation that data has.
C17_LastWriteWins ==
  [][\A i \in 1..Len(calls) :
       (calls[i].step = "writeFile" /\ calls' = Drop(calls, i)
          /\ last' # last /\ last'.err = "none") =>
         /\ file' = calls[i].snap
         /\ data' = data]_vars

\* set(u1, "s") and then set(ad, 2) were issued without awaiting; the write
\* of the second has completed, the write of the first is pending with its
\* older snapshot, which lacks ad
C17_Witness ==
  /\ ~awaited
  /\ failed = 0
  /\ data = [u1 |-> Str("s"), ad |-> Num(2)]
  /\ last.op = "set" /\ last.key = AD /\ last.err = "none"
  /\ file = JSONstringify(data)
  /\ Len(calls) = 1
  /\ calls[1].op = "set" /\ calls[1].key = U1 /\ calls[1].step = "writeFile"
  /\ calls[1].snap = JSONstringify([u1 |-> Str("s")])

\* C18, as stated: after set(key, v) has completed successfully, fetch(key)
\* returns v until a later call changes the key, also when the set was
\* issued while the load of the constructor was in flight.  Stated for the
\* key ad, which a caller that does not await sets to 2 and never changes
\* otherwise.
C18_SetSurvivesLoad ==
  (~awaited /\ last.op = "set" /\ last.key = AD /\ last.err = "none") =>
    Get(data, "ad") = last.val

\* this step ends the awaited call in flight with a write that failed
WriteFails ==
  /\ awaited
  /\ Len(calls) = 1
  /\ calls[1].step = "writeFile"
  /\ calls' = <<>>
  /\ last'.err # "none"

\* this step ends an awaited mutating call with success
MutationSucceeds ==
  /\ awaited
  /\ calls # <<>>
  /\ calls' = <<>>
  /\ last'.op \in Mutating
  /\ last'.err = "none"

\* C19, as stated: when the write of a mutating operation fails, the
\* operation throws FILE_NOT_FOUND and data keeps the mutation, while the
\* file still holds what it held when the operation was called (no step of
\* the operation has changed it); and a mutating operation that succeeds
\* later (failed > 0: no write has succeeded since the one that failed)
\* leaves the file equal to data.
C19_SaveFailure ==
  [][/\ WriteFails =>
          /\ last'.err = errors.FILE_NOT_FOUND
          /\ data' = data
          /\ calls[1].snap = JSONstringify(data)
          /\ file' = file
     /\ (awaited /\ calls' # <<>>) => file' = file
     /\ (awaited /\ failed > 0 /\ calls = <<>> /\ last' # last
           /\ last'.op \in Mutating /\ last'.err = "none") =>
          file' = JSONstringify(data')
     /\ (MutationSucceeds /\ failed > 0) => file' = JSONstringify(data')]_vars

\* C19, amended: the same, except that the file is gone (not as it was) when
\* the failed write is that of destroy, whose unlink has deleted it before;
\* and that the later operation is one that saves: any but a delete of an
\* entry that is no array, which returns without writing.
C19_SaveFailureOfSaving ==
  [][/\ WriteFails =>
          /\ last'.err = errors.FILE_NOT_FOUND
          /\ data' = data
          /\ calls[1].snap = JSONstringify(data)
          /\ file' = file
     /\ (awaited /\ calls' # <<>>) =>
          \/ file' = file
          \/ /\ calls # <<>> /\ calls[1].op = "destroy"
             /\ calls[1].step = "unlink"
             /\ file' = NoFile
     /\ MutationSucceeds => file' = JSONstringify(data')]_vars

\* the write of set(u1, v) has failed: data has v at u1, the file holds the
\* data from before the call
C19_Witness ==
  /\ awaited
  /\ calls = <<>>
  /\ last.op = "set"
  /\ last.err = errors.FILE_NOT_FOUND
  /\ Get(data, "u1") = last.val
  /\ data # last.pre
  /\ file = JSONstringify(last.pre)
  /\ file # JSONstringify(data)

\* fetch(key) has returned while the one call a program awaits is in flight
ReadInFlight ==
  /\ awaited
  /\ Len(calls) = 1
  /\ last.op = "fetch"
  /\ last.err = "none"

DestroyAtUnlink(i) ==
  /\ calls[i].op = "destroy"
  /\ calls[i].step = "unlink"

\* C21: destroy() on a store whose file cannot be deleted, there being none,
\* fails with FILE_NOT_FOUND, leaves data as it was when destroy was called,
\* starts no write and creates no file; data is cleared only in the step in
\* which the deletion succeeds: until then it is what it was, and the step
\* that empties it is the one that removes a file that was there.
C21_FailedDestroy ==
  [][\A i \in 1..Len(calls) :
       (awaited /\ DestroyAtUnlink(i)) =>
         /\ data = calls[i].pre
         /\ (file = NoFile /\ calls' # calls) =>
              /\ calls' = Drop(calls, i)
              /\ last'.op = "destroy"
              /\ last'.err = errors.FILE_NOT_FOUND
              /\ data' = data
              /\ file' = NoFile
         /\ (data' # data) =>
              /\ file # NoFile
              /\ file' = NoFile
              /\ data' = EmptyObject]_vars

\* destroy() was called with u1 in data and no file (the write of the set
\* before it had failed): it has failed with FILE_NOT_FOUND, u1 is still
\* there, nothing is in flight and there is no file
C21_Witness ==
  /\ awaited
  /\ calls = <<>>
  /\ last.op = "destroy"
  /\ last.err = errors.FILE_NOT_FOUND
  /\ "u1" \in DOMAIN data
  /\ data = last.pre
  /\ file = NoFile

====
